---- MODULE Spec2Model ----
(***************************************************************************)
(* A model of the ELEC-H409 UART interface scripts:                         *)
(*   src/uart_interface.py                  the interactive session loop   *)
(*   src/python/uart_interface_loopback.py  the one-shot loopback self-test*)
(*                                                                         *)
(* Bytes are naturals 0..255, a bytes object is a sequence of them, a text *)
(* is a sequence of code points, and a console line or the hexadecimal     *)
(* literal is a sequence of one-character strings.  A value that Python    *)
(* may or may not have (a parse that can raise, a local that may be        *)
(* unbound) is a sequence of length 0 (absent) or 1 (present).             *)
(***************************************************************************)
EXTENDS Integers, Sequences, FiniteSets, TLC

VARIABLES
    prog,              \* which script runs: "session", "loopback", or a function under test
    pc,                \* position of the single thread of control
    stack,             \* return positions of the calls in progress
    error,             \* the uncaught exception (or "exit") that ended the run, "" if none
    device,            \* the device on the line: "echo" or "noisy"
    handles,           \* ports of the serial.Serial objects that are open, in opening order
    wire,              \* bytes the host has written during the current transfer
    k,                 \* serial_ports: index of the next candidate of `ports`
    result,            \* serial_ports: `result`
    tried,             \* serial_ports: candidates serial.Serial(port) was called on, this call
    closedLog,         \* serial_ports: candidates s.close() was called on, this call
    lastEnum,          \* value returned by the latest serial_ports() call
    firstNonEmpty,     \* serial_port_menu: first non-empty value serial_ports() returned to it
    available_ports,   \* serial_port_menu: `available_ports`
    line,              \* the latest console line read by a menu, absent before any
    msg,               \* the latest message a menu printed
    prompts,           \* serial_port_menu: "No serial port available" prompts issued
    empties,           \* serial_port_menu: empty enumeration results received
    printed,           \* the set of notices main has printed
    DEFAULT_PORT,      \* loopback: the in-source default port, None if unset
    DEFAULT_BAUDRATE,  \* loopback: the in-source default baud rate, 0 if unset
    port,              \* the resolved port
    baudrate,          \* the resolved baud rate
    input_text,        \* session: the line typed by the operator, as code points
    input_data,        \* loopback: the hexadecimal literal
    input_bytes,       \* the payload
    input_chunks,      \* session: divide_chunks(input_bytes, 16)
    output_chunks,     \* session: the responses collected so far
    i,                 \* session: index of the chunk being transferred (0-based)
    chunk,             \* write_chunk: `chunk`
    j,                 \* write_chunk: position of the next byte / filler to write
    wi,                \* write_chunk: the loop variable `i`, absent while unbound
    output_text,       \* session: the reconstructed text, absent if not computed
    output_bytes,      \* loopback: the bytes read back
    verdict,           \* loopback: the printed status
    probed,            \* loopback: what serial_ports() returned to main, absent if not called
    log                \* session: serial events of the current iteration

vars == << prog, pc, stack, error, device, handles, wire, k, result, tried,
           closedLog, lastEnum, firstNonEmpty, available_ports, line, msg,
           prompts, empties, printed, DEFAULT_PORT, DEFAULT_BAUDRATE, port,
           baudrate, input_text, input_data, input_bytes, input_chunks,
           output_chunks, i, chunk, j, wi, output_text, output_bytes,
           verdict, probed, log >>

\* Set once, before the run starts.
cfgVars == << prog, device, DEFAULT_PORT, DEFAULT_BAUDRATE, input_data >>
enumVars == << k, result, tried, closedLog, lastEnum >>
menuVars == << firstNonEmpty, available_ports, line, msg, prompts, empties >>
wrVars == << chunk, j, wi >>
sessVars == << input_text, input_chunks, output_chunks, i, output_text >>
lbVars == << output_bytes, verdict, probed >>

(***************************************************************************)
(* Bounds of the model.                                                    *)
(***************************************************************************)
MaxLen == 34            \* longest payload handed to divide_chunks on its own
MaxTextLen == 33        \* longest text typed in the session loop
NumCandidates == 3      \* candidate device paths the platform lists
MaxPrompts == 2         \* "no port available" prompts before the model stops retrying

(***************************************************************************)
(* Program constants.                                                      *)
(***************************************************************************)
CHUNK_SIZE == 16        \* divide_chunks(input_bytes, 16)
FRAME_LEN == 16         \* range(i+1, 16) in write_chunk
READ_SIZE == 16         \* ser.read(size=16)
FILLER == 48            \* b'0'
SESSION_BAUDRATE == 230400
LOOPBACK_BAUDRATE == 115200
LITERAL_LEN == 32       \* len(input_data) != 32

None == "None"
Absent == << >>
Some(v) == << v >>
Min(a, b) == IF a <= b THEN a ELSE b

(***************************************************************************)
(* Python sequence operations.                                             *)
(***************************************************************************)
\* s[a:b] for 0 <= a <= b: the slice is clamped to the sequence.
Slice(s, a, b) == SubSeq(s, a + 1, Min(b, Len(s)))

\* s[idx], with Python's negative indices; absent stands for IndexError.
PyIndex(s, idx) ==
    IF idx >= 0 /\ idx < Len(s) THEN Some(s[idx + 1])
    ELSE IF idx < 0 /\ idx >= -Len(s) THEN Some(s[Len(s) + idx + 1])
    ELSE Absent

RECURSIVE Concat(_)
Concat(ss) == IF ss = << >> THEN << >> ELSE Head(ss) \o Concat(Tail(ss))

Zeros(n) == [x \in 1..n |-> 0]

(***************************************************************************)
(* divide_chunks (src/uart_interface.py, 83-87).                            *)
(***************************************************************************)
RECURSIVE DivideLoop(_, _, _, _)
DivideLoop(data, chunk_size, at, acc) ==
    IF at >= Len(data) THEN acc
    ELSE DivideLoop(data, chunk_size, at + chunk_size,
                    Append(acc, Slice(data, at, at + chunk_size)))

\* A slip of the slice bound: data[i:i + chunk_size - 1].
divide_chunks_short(data, chunk_size) ==
    LET RECURSIVE Loop(_, _)
        Loop(at, acc) ==
            IF at >= Len(data) THEN acc
            ELSE Loop(at + chunk_size,
                      Append(acc, Slice(data, at, at + chunk_size - 1)))
    IN Loop(0, << >>)

divide_chunks(data, chunk_size) == DivideLoop(data, chunk_size, 0, << >>)

(***************************************************************************)
(* str.encode() and bytes.decode(): UTF-8, for code points below 2048.      *)
(* decode is absent where Python raises UnicodeDecodeError: a lone          *)
(* continuation byte, a lead byte without its continuation, or a byte that  *)
(* starts no one- or two-byte sequence.                                     *)
(***************************************************************************)
Utf8Char(cp) ==
    IF cp < 128 THEN << cp >>
    ELSE << 192 + (cp \div 64), 128 + (cp % 64) >>

encode(text) == Concat([x \in 1..Len(text) |-> Utf8Char(text[x])])

RECURSIVE DecodeLoop(_, _, _)
DecodeLoop(b, at, acc) ==
    IF at > Len(b) THEN Some(acc)
    ELSE IF b[at] < 128 THEN DecodeLoop(b, at + 1, Append(acc, b[at]))
    ELSE IF /\ b[at] \in 194..223
            /\ at + 1 <= Len(b)
            /\ b[at + 1] \in 128..191
         THEN DecodeLoop(b, at + 2,
                         Append(acc, (b[at] - 192) * 64 + (b[at + 1] - 128)))
    ELSE Absent

decode(b) == DecodeLoop(b, 1, << >>)

(***************************************************************************)
(* int(str): surrounding blanks are stripped, one sign is allowed, the rest *)
(* must be a non-empty run of decimal digits.  Absent stands for ValueError.*)
(***************************************************************************)
DigitVal(c) ==
    CASE c = "0" -> 0 [] c = "1" -> 1 [] c = "2" -> 2 [] c = "3" -> 3
      [] c = "4" -> 4 [] c = "5" -> 5 [] c = "6" -> 6 [] c = "7" -> 7
      [] c = "8" -> 8 [] c = "9" -> 9 [] OTHER -> -1

RECURSIVE LStrip(_)
LStrip(s) == IF s # << >> /\ Head(s) = " " THEN LStrip(Tail(s)) ELSE s

RECURSIVE RStrip(_)
RStrip(s) ==
    IF s # << >> /\ s[Len(s)] = " " THEN RStrip(SubSeq(s, 1, Len(s) - 1)) ELSE s

RECURSIVE DigitsValue(_, _)
DigitsValue(s, acc) ==
    IF s = << >> THEN acc
    ELSE IF DigitVal(Head(s)) < 0 THEN -1
    ELSE DigitsValue(Tail(s), acc * 10 + DigitVal(Head(s)))

ParseInt(s) ==
    LET t == RStrip(LStrip(s))
        signed == t # << >> /\ Head(t) \in {"+", "-"}
        body == IF signed THEN Tail(t) ELSE t
        v == DigitsValue(body, 0)
    IN IF body = << >> \/ v < 0 THEN Absent
       ELSE IF signed /\ Head(t) = "-" THEN Some(0 - v) ELSE Some(v)

(***************************************************************************)
(* bytes.fromhex(str) and bytes.hex().  fromhex skips blanks between bytes  *)
(* and wants two adjacent hexadecimal digits per byte; hex() writes         *)
(* lowercase digits.                                                        *)
(***************************************************************************)
HexVal(c) ==
    CASE c \in {"a", "A"} -> 10 [] c \in {"b", "B"} -> 11
      [] c \in {"c", "C"} -> 12 [] c \in {"d", "D"} -> 13
      [] c \in {"e", "E"} -> 14 [] c \in {"f", "F"} -> 15
      [] OTHER -> DigitVal(c)

RECURSIVE FromHexLoop(_, _, _)
FromHexLoop(s, at, acc) ==
    IF at > Len(s) THEN Some(acc)
    ELSE IF s[at] = " " THEN FromHexLoop(s, at + 1, acc)
    ELSE IF HexVal(s[at]) < 0 THEN Absent
    ELSE IF at + 1 > Len(s) THEN Absent
    ELSE IF HexVal(s[at + 1]) < 0 THEN Absent
    ELSE FromHexLoop(s, at + 2,
                     Append(acc, HexVal(s[at]) * 16 + HexVal(s[at + 1])))

fromhex(s) == FromHexLoop(s, 1, << >>)

HexDigits == << "0", "1", "2", "3", "4", "5", "6", "7",
                "8", "9", "a", "b", "c", "d", "e", "f" >>

hex(b) ==
    Concat([x \in 1..Len(b) |->
              << HexDigits[(b[x] \div 16) + 1], HexDigits[(b[x] % 16) + 1] >>])

(***************************************************************************)
(* serial.Serial.write(data) sends to_bytes(data).  For a bytes object that *)
(* is the object itself; for anything else it is bytes(bytearray(data)),    *)
(* and bytearray(n) of an int n is n zero bytes.  Indexing a bytes object   *)
(* (chunk[i]) yields an int.                                                *)
(***************************************************************************)
to_bytes_int(n) == Zeros(n)

to_bytes_bytes(b) == b

(***************************************************************************)
(* The environment.                                                        *)
(***************************************************************************)
PortNames == << "ttyA", "ttyB", "ttyC", "ttyD", "ttyE" >>

\* `ports`: the candidate paths the platform lists (glob, or COM1..COM256).
Candidates == SubSeq(PortNames, 1, NumCandidates)

\* A noisy device may return the frame with one byte replaced.
Flip(frame, pos, val) == [frame EXCEPT ![pos] = val]

\* What ser.read(size=16) may return in read_chunk once the device holds
\* the frame it received.
SessionResponses(frame) ==
    IF device = "echo" THEN {frame}
    ELSE {frame, Flip(frame, 1, 255)}

\* What ser.read(size=16) may return in the self-test's main.
LoopbackResponses(frame) ==
    IF device = "echo" THEN {frame}
    ELSE {frame} \cup {Flip(frame, p, v) : p \in 1..READ_SIZE, v \in {255, 128}}

(***************************************************************************)
(* Values of the variables a specification does not set itself.            *)
(***************************************************************************)
InitRest ==
    /\ stack = << >>
    /\ error = ""
    /\ handles = << >>
    /\ wire = << >>
    /\ k = 0
    /\ result = << >>
    /\ tried = << >>
    /\ closedLog = << >>
    /\ lastEnum = << >>
    /\ firstNonEmpty = << >>
    /\ available_ports = << >>
    /\ line = Absent
    /\ msg = ""
    /\ prompts = 0
    /\ empties = 0
    /\ printed = {}
    /\ input_text = << >>
    /\ input_chunks = << >>
    /\ output_chunks = << >>
    /\ i = 0
    /\ j = 0
    /\ wi = Absent
    /\ output_text = Absent
    /\ output_bytes = << >>
    /\ verdict = ""
    /\ probed = Absent
    /\ log = << >>

(***************************************************************************)
(* divide_chunks on its own.                                               *)
(***************************************************************************)
Payload(n, a) == [x \in 1..n |-> (a + x) % 256]

Payloads == {Payload(n, a) : n \in 0..MaxLen, a \in {0, 100, 250}}

InitChunks ==
    /\ prog = "divide_chunks"
    /\ pc = "divide"
    /\ device = "echo"
    /\ DEFAULT_PORT = None
    /\ DEFAULT_BAUDRATE = LOOPBACK_BAUDRATE
    /\ port = None
    /\ baudrate = 0
    /\ input_data = << >>
    /\ input_bytes \in Payloads
    /\ chunk = << >>
    /\ InitRest

Divide ==
    /\ pc = "divide"
    /\ input_chunks' = divide_chunks(input_bytes, CHUNK_SIZE)
    /\ pc' = "divided"
    /\ UNCHANGED << prog, stack, error, device, handles, wire, k, result,
                    tried, closedLog, lastEnum, firstNonEmpty,
                    available_ports, line, msg, prompts, empties, printed,
                    DEFAULT_PORT, DEFAULT_BAUDRATE, port, baudrate,
                    input_text, input_data, input_bytes, output_chunks, i,
                    chunk, j, wi, output_text, output_bytes, verdict, probed,
                    log >>

NextChunks == Divide

SpecChunks == InitChunks /\ [][NextChunks]_vars

\* C1: divide_chunks(P, 16) returns chunks whose concatenation is P; every
\* chunk but the last has length 16, the last has length 1..16, and there
\* are ceil(len(P)/16) chunks, none exactly when P is empty.
C1_DivideChunks ==
    pc = "divided" =>
        LET n == Len(input_chunks) IN
        /\ Concat(input_chunks) = input_bytes
        /\ \A x \in 1..n : x < n => Len(input_chunks[x]) = CHUNK_SIZE
        /\ n > 0 => Len(input_chunks[n]) \in 1..CHUNK_SIZE
        /\ n = (Len(input_bytes) + CHUNK_SIZE - 1) \div CHUNK_SIZE
        /\ (n = 0) <=> (input_bytes = << >>)

C1_Witness ==
    /\ pc = "divided"
    /\ Len(input_bytes) = 2 * CHUNK_SIZE + 1
    /\ Len(input_chunks) = 3
    /\ Len(input_chunks[3]) = 1

(***************************************************************************)
(* Open serial connections.  serial.Serial(port, ...) opens, s.close() and  *)
(* the end of a `with` block (normal or by exception) close.               *)
(***************************************************************************)
Opened(hs, p) == Append(hs, p)

\* A close that is forgotten.
Closed_leak(hs) == hs

Closed(hs) == SubSeq(hs, 1, Len(hs) - 1)

(***************************************************************************)
(* write_chunk (src/uart_interface.py, 89-95).                              *)
(***************************************************************************)
\* with serial.Serial(port, baudrate) as ser:
WriteOpen ==
    /\ pc = "w_open"
    /\ \/ /\ handles' = Opened(handles, port)
          /\ wire' = << >>
          /\ j' = 0
          /\ wi' = Absent
          /\ log' = Append(log, << "w_open", i >>)
          /\ pc' = "w_loop"
          /\ UNCHANGED error
       \/ /\ pc' = "crashed"
          /\ error' = "SerialException"
          /\ UNCHANGED << handles, wire, j, wi, log >>
    /\ UNCHANGED << cfgVars, enumVars, menuVars, sessVars, lbVars, stack,
                    printed, port, baudrate, input_bytes, chunk >>

\* for i in range(len(chunk)): ser.write(chunk[i])
WriteByte ==
    /\ pc = "w_loop"
    /\ j < Len(chunk)
    /\ \/ /\ wire' = wire \o to_bytes_int(chunk[j + 1])
          /\ wi' = Some(j)
          /\ j' = j + 1
          /\ UNCHANGED << pc, error, handles >>
       \/ /\ handles' = Closed(handles)
          /\ pc' = "crashed"
          /\ error' = "SerialException"
          /\ UNCHANGED << wire, wi, j >>
    /\ UNCHANGED << cfgVars, enumVars, menuVars, sessVars, lbVars, stack,
                    printed, port, baudrate, input_bytes, chunk, log >>

\* range(i+1, 16) is evaluated once the first loop is over; `i` is unbound
\* if that loop never ran.
WriteLoopEnd ==
    /\ pc = "w_loop"
    /\ j >= Len(chunk)
    /\ \/ /\ wi # Absent
          /\ j' = wi[1] + 1
          /\ pc' = "w_fill"
          /\ UNCHANGED << error, handles >>
       \/ /\ wi = Absent
          /\ handles' = Closed(handles)
          /\ pc' = "crashed"
          /\ error' = "UnboundLocalError"
          /\ UNCHANGED j
    /\ UNCHANGED << cfgVars, enumVars, menuVars, sessVars, lbVars, stack,
                    printed, port, baudrate, input_bytes, chunk, wi, wire,
                    log >>

\* for _ in range(i+1, 16): ser.write(b'0')
WriteFill ==
    /\ pc = "w_fill"
    /\ j < FRAME_LEN
    /\ \/ /\ wire' = wire \o to_bytes_bytes(<< FILLER >>)
          /\ j' = j + 1
          /\ UNCHANGED << pc, error, handles >>
       \/ /\ handles' = Closed(handles)
          /\ pc' = "crashed"
          /\ error' = "SerialException"
          /\ UNCHANGED << wire, j >>
    /\ UNCHANGED << cfgVars, enumVars, menuVars, sessVars, lbVars, stack,
                    printed, port, baudrate, input_bytes, chunk, wi, log >>

\* The `with` block ends and write_chunk returns.
WriteClose ==
    /\ pc = "w_fill"
    /\ j >= FRAME_LEN
    /\ handles' = Closed(handles)
    /\ log' = Append(log, << "w_close", i >>)
    /\ pc' = IF prog = "session" THEN "r_open" ELSE "returned"
    /\ UNCHANGED << cfgVars, enumVars, menuVars, sessVars, lbVars, stack,
                    error, printed, port, baudrate, input_bytes, chunk, wi,
                    j, wire >>

(***************************************************************************)
(* write_chunk on its own, for every chunk of 0..16 bytes.                  *)
(***************************************************************************)
TestChunks ==
    {[x \in 1..n |-> a + (x % 3)] : n \in 0..CHUNK_SIZE, a \in {0, 1, 65}}

InitWrite ==
    /\ prog = "write_chunk"
    /\ pc = "w_open"
    /\ device = "echo"
    /\ DEFAULT_PORT = None
    /\ DEFAULT_BAUDRATE = LOOPBACK_BAUDRATE
    /\ port = Candidates[1]
    /\ baudrate = SESSION_BAUDRATE
    /\ input_data = << >>
    /\ input_bytes = << >>
    /\ chunk \in TestChunks
    /\ InitRest

NextWrite == WriteOpen \/ WriteByte \/ WriteLoopEnd \/ WriteFill \/ WriteClose

SpecWrite == InitWrite /\ [][NextWrite]_vars

Fillers(n) == [x \in 1..n |-> FILLER]

\* C2: once write_chunk is over without an I/O failure, the bytes written
\* are the k bytes of the chunk, in order, followed by 16-k filler bytes
\* '0' (none for k = 16): the frame has length 16.
C2_PaddedFrame ==
    (prog = "write_chunk" /\ (pc = "returned" \/ error = "UnboundLocalError"))
        => /\ wire = chunk \o Fillers(FRAME_LEN - Len(chunk))
           /\ Len(wire) = FRAME_LEN
           /\ pc = "returned"

(***************************************************************************)
(* serial_ports (both files).  The platform test is left out: the model     *)
(* runs on a supported platform, where `ports` is Candidates.               *)
(***************************************************************************)
Elems(seq) == {seq[x] : x \in 1..Len(seq)}

\* The call: the locals start afresh and `ret` is where it returns to.
CallSerialPorts(ret) ==
    /\ k' = 0
    /\ result' = << >>
    /\ tried' = << >>
    /\ closedLog' = << >>
    /\ stack' = << ret >> \o stack
    /\ pc' = "sp_loop"

\* try: s = serial.Serial(port) ... except (OSError, SerialException): pass
ProbeOpen ==
    /\ pc = "sp_loop"
    /\ k < Len(Candidates)
    /\ tried' = Append(tried, Candidates[k + 1])
    /\ \/ /\ handles' = Opened(handles, Candidates[k + 1])
          /\ pc' = "sp_close"
          /\ UNCHANGED k
       \/ /\ k' = k + 1
          /\ UNCHANGED << handles, pc >>
    /\ UNCHANGED << cfgVars, menuVars, wrVars, sessVars, lbVars, stack, error,
                    wire, result, closedLog, lastEnum, printed, port,
                    baudrate, input_bytes, log >>

\* s.close(); result.append(port)
ProbeClose ==
    /\ pc = "sp_close"
    /\ handles' = Closed(handles)
    /\ closedLog' = Append(closedLog, Candidates[k + 1])
    /\ result' = Append(result, Candidates[k + 1])
    /\ k' = k + 1
    /\ pc' = "sp_loop"
    /\ UNCHANGED << cfgVars, menuVars, wrVars, sessVars, lbVars, stack, error,
                    wire, tried, lastEnum, printed, port, baudrate,
                    input_bytes, log >>

\* return result.  When the caller is serial_port_menu, the result is
\* counted if empty and remembered if it is the first non-empty one.
EnumReturn ==
    /\ pc = "sp_loop"
    /\ k >= Len(Candidates)
    /\ lastEnum' = result
    /\ pc' = Head(stack)
    /\ stack' = Tail(stack)
    /\ empties' = IF Head(stack) = "menu_check" /\ result = << >>
                  THEN empties + 1 ELSE empties
    /\ firstNonEmpty' = IF /\ Head(stack) = "menu_check"
                           /\ result # << >>
                           /\ firstNonEmpty = << >>
                        THEN result ELSE firstNonEmpty
    /\ UNCHANGED << cfgVars, wrVars, sessVars, lbVars, error, handles, wire,
                    k, result, tried, closedLog, available_ports, line, msg,
                    prompts, printed, port, baudrate, input_bytes, log >>

(***************************************************************************)
(* serial_port_menu (src/uart_interface.py 48-67,                           *)
(* src/python/uart_interface_loopback.py 55-78).                            *)
(***************************************************************************)
MenuLines ==
    { << >>, << "a", "b", "c" >>, << "1", ".", "5" >>, << " ", "1" >>,
      << "0" >>, << "1" >>, << "2" >>, << "3" >>, << "4" >>, << "5" >>,
      << "-", "1" >>, << "-", "3" >>, << "-", "4" >>, << "-", "5" >>,
      << "-", "6" >> }

\* The call: available_ports = serial_ports().
CallSerialPortMenu(ret) ==
    /\ firstNonEmpty' = << >>
    /\ available_ports' = << >>
    /\ line' = Absent
    /\ msg' = ""
    /\ prompts' = 0
    /\ empties' = 0
    /\ k' = 0
    /\ result' = << >>
    /\ tried' = << >>
    /\ closedLog' = << >>
    /\ stack' = << "menu_check", ret >> \o stack
    /\ pc' = "sp_loop"

\* serial_ports() has returned: the two `while` tests, and in the loopback
\* file the single-port shortcut.
MenuCheck ==
    /\ pc = "menu_check"
    /\ available_ports' = lastEnum
    /\ \/ /\ Len(lastEnum) = 0
          /\ pc' = "menu_prompt"
          /\ UNCHANGED << port, msg >>
       \/ /\ Len(lastEnum) = 1
          /\ prog = "loopback"
          /\ port' = lastEnum[1]
          /\ msg' = "only"
          /\ pc' = "menu_return"
       \/ /\ Len(lastEnum) > 0
          /\ ~(Len(lastEnum) = 1 /\ prog = "loopback")
          /\ pc' = "menu_choose"
          /\ UNCHANGED << port, msg >>
    /\ printed' = printed \cup {"port_menu"}
    /\ UNCHANGED << cfgVars, enumVars, wrVars, sessVars, lbVars, stack, error,
                    handles, wire, firstNonEmpty, line, prompts, empties,
                    baudrate, input_bytes, log >>

\* A prompt that does not enumerate again.
MenuPrompt_stale ==
    /\ pc = "menu_prompt"
    /\ prompts < MaxPrompts
    /\ prompts' = prompts + 1
    /\ pc' = "menu_choose"
    /\ UNCHANGED << cfgVars, enumVars, wrVars, sessVars, lbVars, stack, error,
                    handles, wire, firstNonEmpty, available_ports, line, msg,
                    empties, printed, port, baudrate, input_bytes, log >>

\* input("No serial port available. ..."); available_ports = serial_ports()
MenuPrompt ==
    /\ pc = "menu_prompt"
    /\ prompts < MaxPrompts
    /\ prompts' = prompts + 1
    /\ CallSerialPorts("menu_check")
    /\ UNCHANGED << cfgVars, wrVars, sessVars, lbVars, error, handles, wire,
                    lastEnum, firstNonEmpty, available_ports, line, msg,
                    empties, printed, port, baudrate, input_bytes, log >>

\* available_ports[resp]
MenuIndex(ports, resp) == PyIndex(ports, resp)

\* One turn of the `while True` loop: resp = int(input("")), then
\* available_ports[resp].
MenuChoose ==
    /\ pc = "menu_choose"
    /\ \E l \in MenuLines :
         /\ line' = Some(l)
         /\ \/ /\ ParseInt(l) = Absent
               /\ msg' = "type"
               /\ UNCHANGED << pc, port >>
            \/ /\ ParseInt(l) # Absent
               /\ MenuIndex(available_ports, ParseInt(l)[1]) = Absent
               /\ msg' = "range"
               /\ UNCHANGED << pc, port >>
            \/ /\ ParseInt(l) # Absent
               /\ MenuIndex(available_ports, ParseInt(l)[1]) # Absent
               /\ port' = MenuIndex(available_ports, ParseInt(l)[1])[1]
               /\ msg' = "chosen"
               /\ pc' = "menu_return"
    /\ UNCHANGED << cfgVars, enumVars, wrVars, sessVars, lbVars, stack, error,
                    handles, wire, firstNonEmpty, available_ports, prompts,
                    empties, printed, baudrate, input_bytes, log >>

\* return port: the frames of serial_port_menu and serial_ports are gone.
MenuReturn ==
    /\ pc = "menu_return"
    /\ pc' = Head(stack)
    /\ stack' = Tail(stack)
    /\ k' = 0
    /\ result' = << >>
    /\ tried' = << >>
    /\ closedLog' = << >>
    /\ lastEnum' = << >>
    /\ firstNonEmpty' = << >>
    /\ available_ports' = << >>
    /\ line' = Absent
    /\ msg' = ""
    /\ prompts' = 0
    /\ empties' = 0
    /\ UNCHANGED << cfgVars, wrVars, sessVars, lbVars, error, handles, wire,
                    printed, port, baudrate, input_bytes, log >>

(***************************************************************************)
(* baudrate_menu.  The session file takes an empty line as 230400; the      *)
(* loopback file hands every line to int().                                 *)
(***************************************************************************)
BaudLines == { << >>, << "x" >>, << "9", "6", "0", "0" >> }

\* src/uart_interface.py, 69-81
baudrate_menu ==
    /\ pc = "baud_menu"
    /\ printed' = printed \cup {"baud_menu"}
    /\ \E l \in BaudLines :
         \/ /\ l = << >>
            /\ baudrate' = SESSION_BAUDRATE
            /\ pc' = "await"
            /\ UNCHANGED << line, msg >>
         \/ /\ l # << >>
            /\ ParseInt(l) = Absent
            /\ line' = Some(l)
            /\ msg' = "type"
            /\ UNCHANGED << pc, baudrate >>
         \/ /\ l # << >>
            /\ ParseInt(l) # Absent
            /\ baudrate' = ParseInt(l)[1]
            /\ pc' = "await"
            /\ line' = Absent
            /\ msg' = ""
    /\ UNCHANGED << cfgVars, enumVars, wrVars, sessVars, lbVars, stack, error,
                    handles, wire, firstNonEmpty, available_ports, prompts,
                    empties, port, input_bytes, log >>

\* src/python/uart_interface_loopback.py, 80-88
loopback_baudrate_menu ==
    /\ pc = "lb_baud_menu"
    /\ printed' = printed \cup {"baud_menu"}
    /\ \E l \in BaudLines :
         \/ /\ ParseInt(l) = Absent
            /\ line' = Some(l)
            /\ msg' = "type"
            /\ UNCHANGED << pc, baudrate >>
         \/ /\ ParseInt(l) # Absent
            /\ baudrate' = ParseInt(l)[1]
            /\ pc' = "lb_open"
            /\ line' = Absent
            /\ msg' = ""
    /\ UNCHANGED << cfgVars, enumVars, wrVars, sessVars, lbVars, stack, error,
                    handles, wire, firstNonEmpty, available_ports, prompts,
                    empties, port, input_bytes, log >>

(***************************************************************************)
(* read_chunk (src/uart_interface.py, 97-101).  The device answers a frame  *)
(* once it holds 16 bytes of it; ser.read(size=16) has no timeout and       *)
(* blocks until then.                                                       *)
(***************************************************************************)
\* with serial.Serial(port, baudrate) as ser:
ReadOpen ==
    /\ pc = "r_open"
    /\ \/ /\ handles' = Opened(handles, port)
          /\ log' = Append(log, << "r_open", i >>)
          /\ pc' = "r_read"
          /\ UNCHANGED error
       \/ /\ pc' = "crashed"
          /\ error' = "SerialException"
          /\ UNCHANGED << handles, log >>
    /\ UNCHANGED << cfgVars, enumVars, menuVars, wrVars, sessVars, lbVars,
                    stack, wire, printed, port, baudrate, input_bytes >>

\* chunk = ser.read(size=16)
ReadRead ==
    /\ pc = "r_read"
    /\ \/ /\ Len(wire) >= READ_SIZE
          /\ \E r \in SessionResponses(SubSeq(wire, 1, READ_SIZE)) :
               chunk' = r
          /\ log' = Append(log, << "read", i >>)
          /\ pc' = "r_close"
          /\ UNCHANGED << error, handles >>
       \/ /\ handles' = Closed(handles)
          /\ pc' = "crashed"
          /\ error' = "SerialException"
          /\ UNCHANGED << chunk, log >>
    /\ UNCHANGED << cfgVars, enumVars, menuVars, sessVars, lbVars, stack,
                    wire, printed, port, baudrate, input_bytes, j, wi >>

\* The `with` block ends; return chunk.
ReadClose ==
    /\ pc = "r_close"
    /\ handles' = Closed(handles)
    /\ log' = Append(log, << "r_close", i >>)
    /\ pc' = "collect"
    /\ UNCHANGED << cfgVars, enumVars, menuVars, wrVars, sessVars, lbVars,
                    stack, error, wire, printed, port, baudrate,
                    input_bytes >>

(***************************************************************************)
(* The session script (src/uart_interface.py, 104-129).                     *)
(***************************************************************************)
TextLens == {0, 1, 10, 15, 16, 17, MaxTextLen - 1, MaxTextLen}

PatternText(n) == [x \in 1..n |-> 1 + (x % 2)]

\* The same text with an e-acute (U+00E9, two bytes in UTF-8) at position p.
AccentText(n, p) == [PatternText(n) EXCEPT ![p] = 233]

Texts ==
    {PatternText(n) : n \in TextLens}
      \cup UNION {{AccentText(n, p) : p \in {1, CHUNK_SIZE, n} \cap 1..n} :
                    n \in TextLens}
      \cup {<< 72, 105 >>}

\* port = serial_port_menu()
SessionStart ==
    /\ pc = "main"
    /\ CallSerialPortMenu("baud_menu")
    /\ UNCHANGED << cfgVars, wrVars, sessVars, lbVars, error, handles, wire,
                    lastEnum, printed, port, baudrate, input_bytes, log >>

\* Lines 115-120, and the call of write_chunk for the first chunk if any.
AwaitInput ==
    /\ pc = "await"
    /\ \E t \in Texts :
         /\ input_text' = t
         /\ input_bytes' = encode(t)
         /\ input_chunks' = divide_chunks(encode(t), CHUNK_SIZE)
    /\ output_chunks' = << >>
    /\ output_text' = Absent
    /\ log' = << >>
    /\ i' = 0
    /\ IF input_chunks' = << >>
       THEN pc' = "reassemble" /\ UNCHANGED chunk
       ELSE pc' = "w_open" /\ chunk' = input_chunks'[1]
    /\ UNCHANGED << cfgVars, enumVars, menuVars, lbVars, stack, error,
                    handles, wire, printed, port, baudrate, j, wi >>

\* current_chunk = read_chunk(...); output_chunks.append(current_chunk);
\* then the next turn of the `for` loop.
Collect ==
    /\ pc = "collect"
    /\ output_chunks' = Append(output_chunks, chunk)
    /\ i' = i + 1
    /\ IF i + 1 < Len(input_chunks)
       THEN pc' = "w_open" /\ chunk' = input_chunks[i + 2]
       ELSE pc' = "reassemble" /\ UNCHANGED chunk
    /\ UNCHANGED << cfgVars, enumVars, menuVars, lbVars, stack, error,
                    handles, wire, printed, port, baudrate, input_bytes,
                    input_text, input_chunks, output_text, j, wi, log >>

\* [b.decode() for b in output_chunks]
DecodedChunks == [x \in 1..Len(output_chunks) |-> decode(output_chunks[x])]

\* output_text = "".join([...])[:len(input_text)], then back to input().
Reassemble ==
    /\ pc = "reassemble"
    /\ \/ /\ \A x \in 1..Len(output_chunks) : DecodedChunks[x] # Absent
          /\ output_text' =
               Some(Slice(Concat([x \in 1..Len(output_chunks) |->
                                    DecodedChunks[x][1]]),
                          0, Len(input_text)))
          /\ pc' = "await"
          /\ UNCHANGED error
       \/ /\ \E x \in 1..Len(output_chunks) : DecodedChunks[x] = Absent
          /\ pc' = "crashed"
          /\ error' = "UnicodeDecodeError"
          /\ UNCHANGED output_text
    /\ UNCHANGED << cfgVars, enumVars, menuVars, wrVars, lbVars, stack,
                    handles, wire, printed, port, baudrate, input_bytes,
                    input_text, input_chunks, output_chunks, i, log >>

InitSession ==
    /\ prog = "session"
    /\ pc = "main"
    /\ device \in {"echo", "noisy"}
    /\ DEFAULT_PORT = None
    /\ DEFAULT_BAUDRATE = LOOPBACK_BAUDRATE
    /\ port = None
    /\ baudrate = 0
    /\ input_data = << >>
    /\ input_bytes = << >>
    /\ chunk = << >>
    /\ InitRest

(***************************************************************************)
(* The loopback self-test (src/python/uart_interface_loopback.py, 90-136).  *)
(***************************************************************************)
\* input_data = "000102030405060708090a0b0c0d0e0f"
Literal ==
    << "0", "0", "0", "1", "0", "2", "0", "3", "0", "4", "0", "5", "0", "6",
       "0", "7", "0", "8", "0", "9", "0", "a", "0", "b", "0", "c", "0", "d",
       "0", "e", "0", "f" >>

\* The literal with the two characters of byte p replaced.
WithToken(p, tok) ==
    [Literal EXCEPT ![2 * p - 1] = tok[1], ![2 * p] = tok[2]]

\* The literals a run may be started with: the one in the source, and
\* edits of it (shorter, longer, a non-hexadecimal character, blanks, an
\* uppercase digit, another byte value).
Literals ==
    { Literal,
      SubSeq(Literal, 1, 30), SubSeq(Literal, 1, 31),
      Literal \o << "1" >>, Literal \o << "1", "0" >>,
      Literal \o << " ", " " >>,
      SubSeq(WithToken(1, << "0", "g" >>), 1, 30),
      [Literal EXCEPT ![22] = "A"] }
      \cup {WithToken(p, tok) :
              p \in {1, 16},
              tok \in {<< "0", "g" >>, << " ", " " >>, << "f", "f" >>}}

\* Lines 122-129: the length test and bytes.fromhex, exit() on either error.
LbParse ==
    /\ pc = "lb_start"
    /\ \/ /\ Len(input_data) # LITERAL_LEN
          /\ printed' = printed \cup {"length_error"}
          /\ pc' = "exited"
          /\ error' = "exit"
          /\ UNCHANGED input_bytes
       \/ /\ Len(input_data) = LITERAL_LEN
          /\ fromhex(input_data) = Absent
          /\ printed' = printed \cup {"format_error"}
          /\ pc' = "exited"
          /\ error' = "exit"
          /\ UNCHANGED input_bytes
       \/ /\ Len(input_data) = LITERAL_LEN
          /\ fromhex(input_data) # Absent
          /\ input_bytes' = fromhex(input_data)[1]
          /\ pc' = "lb_main"
          /\ UNCHANGED << printed, error >>
    /\ UNCHANGED << cfgVars, enumVars, menuVars, wrVars, sessVars, lbVars,
                    stack, handles, wire, port, baudrate, log >>

\* Lines 93-102: `if DEFAULT_PORT:`; a set default is looked up in
\* serial_ports(), an unset one leads to the menu.
LbMain ==
    /\ pc = "lb_main"
    /\ \/ /\ DEFAULT_PORT # None
          /\ CallSerialPorts("lb_default_check")
          /\ UNCHANGED << printed, menuVars >>
       \/ /\ DEFAULT_PORT = None
          /\ printed' = printed \cup {"default_port_unset"}
          /\ CallSerialPortMenu("lb_baud")
    /\ UNCHANGED << cfgVars, wrVars, sessVars, lbVars, error, handles, wire,
                    lastEnum, port, baudrate, input_bytes, log >>

\* A lookup that takes the default port without testing the enumeration.
LbDefaultCheck_blind ==
    /\ pc = "lb_default_check"
    /\ probed' = Some(lastEnum)
    /\ port' = DEFAULT_PORT
    /\ printed' = printed \cup {"default_port"}
    /\ pc' = "lb_baud"
    /\ UNCHANGED << cfgVars, enumVars, menuVars, wrVars, sessVars, stack,
                    error, handles, wire, baudrate, input_bytes,
                    output_bytes, verdict, log >>

\* if DEFAULT_PORT in serial_ports(): ... else: port = serial_port_menu()
LbDefaultCheck ==
    /\ pc = "lb_default_check"
    /\ probed' = Some(lastEnum)
    /\ \/ /\ DEFAULT_PORT \in Elems(lastEnum)
          /\ port' = DEFAULT_PORT
          /\ printed' = printed \cup {"default_port"}
          /\ pc' = "lb_baud"
          /\ UNCHANGED << enumVars, menuVars, stack >>
       \/ /\ DEFAULT_PORT \notin Elems(lastEnum)
          /\ printed' = printed \cup {"default_port_unavailable"}
          /\ CallSerialPortMenu("lb_baud")
          /\ UNCHANGED << port, lastEnum >>
    /\ UNCHANGED << cfgVars, wrVars, sessVars, error, handles, wire,
                    baudrate, input_bytes, output_bytes, verdict, log >>

\* Lines 103-108: `if DEFAULT_BAUDRATE:`
LbBaud ==
    /\ pc = "lb_baud"
    /\ \/ /\ DEFAULT_BAUDRATE # 0
          /\ baudrate' = DEFAULT_BAUDRATE
          /\ printed' = printed \cup {"default_baudrate"}
          /\ pc' = "lb_open"
       \/ /\ DEFAULT_BAUDRATE = 0
          /\ printed' = printed \cup {"default_baudrate_unset"}
          /\ pc' = "lb_baud_menu"
          /\ UNCHANGED baudrate
    /\ UNCHANGED << cfgVars, enumVars, menuVars, wrVars, sessVars, lbVars,
                    stack, error, handles, wire, port, input_bytes, log >>

\* with serial.Serial(port, baudrate) as ser:
LbOpen ==
    /\ pc = "lb_open"
    /\ \/ /\ handles' = Opened(handles, port)
          /\ wire' = << >>
          /\ pc' = "lb_write"
          /\ UNCHANGED error
       \/ /\ pc' = "crashed"
          /\ error' = "SerialException"
          /\ UNCHANGED << handles, wire >>
    /\ UNCHANGED << cfgVars, enumVars, menuVars, wrVars, sessVars, lbVars,
                    stack, printed, port, baudrate, input_bytes, log >>

\* ser.write(input_bytes)
LbWrite ==
    /\ pc = "lb_write"
    /\ \/ /\ wire' = wire \o to_bytes_bytes(input_bytes)
          /\ pc' = "lb_read"
          /\ UNCHANGED << error, handles >>
       \/ /\ handles' = Closed(handles)
          /\ pc' = "crashed"
          /\ error' = "SerialException"
          /\ UNCHANGED wire
    /\ UNCHANGED << cfgVars, enumVars, menuVars, wrVars, sessVars, lbVars,
                    stack, printed, port, baudrate, input_bytes, log >>

\* output_bytes = ser.read(size=16)
LbRead ==
    /\ pc = "lb_read"
    /\ \/ /\ Len(wire) >= READ_SIZE
          /\ \E r \in LoopbackResponses(SubSeq(wire, 1, READ_SIZE)) :
               output_bytes' = r
          /\ pc' = "lb_close"
          /\ UNCHANGED << error, handles >>
       \/ /\ handles' = Closed(handles)
          /\ pc' = "crashed"
          /\ error' = "SerialException"
          /\ UNCHANGED output_bytes
    /\ UNCHANGED << cfgVars, enumVars, menuVars, wrVars, sessVars, stack,
                    wire, printed, port, baudrate, input_bytes, verdict,
                    probed, log >>

\* The `with` block ends; return output_bytes.
LbClose ==
    /\ pc = "lb_close"
    /\ handles' = Closed(handles)
    /\ pc' = "lb_verdict"
    /\ UNCHANGED << cfgVars, enumVars, menuVars, wrVars, sessVars, lbVars,
                    stack, error, wire, printed, port, baudrate, input_bytes,
                    log >>

\* Lines 131-136: the literal is compared with output_bytes.hex().
LbVerdict ==
    /\ pc = "lb_verdict"
    /\ verdict' = IF input_data = hex(output_bytes) THEN "SUCCES" ELSE "FAIL"
    /\ pc' = "done"
    /\ UNCHANGED << cfgVars, enumVars, menuVars, wrVars, sessVars, stack,
                    error, handles, wire, printed, port, baudrate,
                    input_bytes, output_bytes, probed, log >>

InitLoopback ==
    /\ prog = "loopback"
    /\ pc = "lb_start"
    /\ device \in {"echo", "noisy"}
    /\ DEFAULT_PORT \in {None, Candidates[1]}
    /\ DEFAULT_BAUDRATE \in {0, LOOPBACK_BAUDRATE}
    /\ port = None
    /\ baudrate = 0
    /\ input_data \in Literals
    /\ input_bytes = << >>
    /\ chunk = << >>
    /\ InitRest

(***************************************************************************)
(* The two scripts.                                                        *)
(***************************************************************************)
Init == InitSession \/ InitLoopback

Next ==
    \/ ProbeOpen \/ ProbeClose \/ EnumReturn
    \/ MenuCheck \/ MenuPrompt \/ MenuChoose \/ MenuReturn
    \/ baudrate_menu \/ loopback_baudrate_menu
    \/ SessionStart \/ AwaitInput
    \/ WriteOpen \/ WriteByte \/ WriteLoopEnd \/ WriteFill \/ WriteClose
    \/ ReadOpen \/ ReadRead \/ ReadClose \/ Collect \/ Reassemble
    \/ LbParse \/ LbMain \/ LbDefaultCheck \/ LbBaud
    \/ LbOpen \/ LbWrite \/ LbRead \/ LbClose \/ LbVerdict

Spec == Init /\ [][Next]_vars

(***************************************************************************)
(* Properties of the two scripts.                                          *)
(***************************************************************************)
\* C3: serial_port_menu re-prompts with the type message on a line that is
\* no integer and with the out-of-range message on an integer outside
\* 0..n-1; it returns on a line only if that line is an integer i with
\* 0 <= i <= n-1, and then returns the descriptor at position i of the menu.
C3_MenuSelection ==
    LET n == Len(available_ports)
        resp == ParseInt(line[1])
    IN /\ (pc = "menu_choose" /\ msg = "type") => resp = Absent
       /\ (pc = "menu_choose" /\ msg = "range") =>
             (resp # Absent /\ resp[1] \notin 0..(n - 1))
       /\ (pc = "menu_return" /\ line # Absent) =>
             /\ resp # Absent
             /\ resp[1] \in 0..(n - 1)
             /\ port = available_ports[resp[1] + 1]

\* C4: serial_port_menu does not get past its retry loop while the latest
\* enumeration result is empty; it has prompted once for every empty result,
\* every prompt was followed by a new enumeration, and the port it returns
\* is an element of the first non-empty result.
C4_MenuRetry ==
    /\ pc = "menu_prompt" => (lastEnum = << >> /\ empties = prompts + 1)
    /\ (pc \in {"sp_loop", "sp_close"} /\ Head(stack) = "menu_check") =>
          empties = prompts
    /\ pc \in {"menu_choose", "menu_return"} =>
          /\ lastEnum # << >>
          /\ available_ports = lastEnum
          /\ firstNonEmpty = lastEnum
          /\ empties = prompts
    /\ pc = "menu_return" => port \in Elems(firstNonEmpty)

C4_Witness ==
    /\ pc = "menu_return"
    /\ prompts = 2
    /\ empties = 2
    /\ Len(firstNonEmpty) = 2
    /\ port = firstNonEmpty[2]

\* Whether the literal denotes exactly 16 bytes of hexadecimal.
DenotesPayload(lit) ==
    fromhex(lit) # Absent /\ Len(fromhex(lit)[1]) = LITERAL_LEN \div 2

\* C5: in the self-test, a literal that does not denote exactly 16 bytes,
\* or is not valid hexadecimal, is rejected with a length or format error
\* and the run stops before any serial I/O: no port is probed, opened,
\* written or read.
C5_LiteralRejected ==
    (prog = "loopback" /\ ~DenotesPayload(input_data)) =>
        /\ tried = << >>
        /\ handles = << >>
        /\ wire = << >>
        /\ output_bytes = << >>
        /\ pc \in {"crashed", "done", "exited"} =>
              /\ pc = "exited"
              /\ printed \cap {"length_error", "format_error"} # {}

\* C6: in the self-test, the verdict is "SUCCESS" exactly if the 16 bytes
\* read back equal the 16 bytes sent, and "FAIL" otherwise.
C6_Verdict ==
    pc = "done" =>
        /\ verdict \in {"SUCCESS", "FAIL"}
        /\ (verdict = "SUCCESS") <=> (output_bytes = input_bytes)

\* C7: in the session loop, with a device that echoes every 16-byte frame
\* verbatim, the reconstructed text has as many characters as the input
\* text and equals it, whatever the padding of the last chunk.
C7_TextRoundTrip ==
    (prog = "session" /\ device = "echo") =>
        /\ error # "UnicodeDecodeError"
        /\ (pc = "await" /\ output_text # Absent) =>
              /\ Len(output_text[1]) = Len(input_text)
              /\ output_text[1] = input_text

\* C8: at most one serial handle is open at any time, a handle is open only
\* while control is inside the function that opened it (so it is closed on
\* every return and on every exception), and when serial_ports returns it
\* has tried every candidate once, closed every one it opened once, and
\* left none open.
C8_SingleHandle ==
    /\ Len(handles) <= 1
    /\ handles # << >> =>
          pc \in {"sp_close", "w_loop", "w_fill", "r_read", "r_close",
                  "lb_write", "lb_read", "lb_close"}
    /\ pc \in {"menu_check", "lb_default_check"} =>
          /\ tried = Candidates
          /\ closedLog = result
          /\ lastEnum = result
          /\ handles = << >>

C8_Witness ==
    /\ prog = "session"
    /\ pc = "crashed"
    /\ error = "SerialException"
    /\ Len(wire) > 0
    /\ i = 1
    /\ handles = << >>

\* Whether main found the default port in the enumeration it made.
DefaultPresent ==
    /\ DEFAULT_PORT # None
    /\ probed # Absent
    /\ DEFAULT_PORT \in Elems(probed[1])

\* C9, as claimed: with the default port in the enumeration result both
\* prompts are skipped (default port, default baud rate); otherwise the
\* port comes from serial_port_menu and the baud rate from baudrate_menu.
C9_DefaultsAsClaimed ==
    pc = "lb_open" =>
        /\ DefaultPresent =>
              /\ port = DEFAULT_PORT
              /\ baudrate = DEFAULT_BAUDRATE
              /\ printed \cap {"port_menu", "baud_menu"} = {}
        /\ ~DefaultPresent => {"port_menu", "baud_menu"} \subseteq printed

\* C9, amended: the port and the baud rate are resolved independently.
\* serial_port_menu is skipped exactly if the default port is set and is in
\* the enumeration result (the port is then the default port); baudrate_menu
\* is skipped exactly if the default baud rate is set (the baud rate is
\* then the default one), whatever happened for the port.
C9_DefaultsResolved ==
    pc = "lb_open" =>
        /\ DefaultPresent => (port = DEFAULT_PORT /\ "port_menu" \notin printed)
        /\ ~DefaultPresent =>
              ("port_menu" \in printed /\ port \in Elems(Candidates))
        /\ DEFAULT_BAUDRATE # 0 =>
              (baudrate = DEFAULT_BAUDRATE /\ "baud_menu" \notin printed)
        /\ DEFAULT_BAUDRATE = 0 => "baud_menu" \in printed

C9_Witness ==
    /\ pc = "lb_open"
    /\ DEFAULT_PORT # None
    /\ probed # Absent
    /\ DEFAULT_PORT \notin Elems(probed[1])
    /\ "port_menu" \in printed
    /\ DEFAULT_BAUDRATE # 0
    /\ baudrate = DEFAULT_BAUDRATE
    /\ "baud_menu" \notin printed

\* The serial events of an iteration that transfers m chunks, in order.
RECURSIVE ExpectedLog(_)
ExpectedLog(m) ==
    IF m = 0 THEN << >>
    ELSE ExpectedLog(m - 1) \o
         << << "w_open", m - 1 >>, << "w_close", m - 1 >>,
            << "r_open", m - 1 >>, << "read", m - 1 >>,
            << "r_close", m - 1 >> >>

\* Chunks go one at a time and in order (open, write, close, open, read
\* 16 bytes, close), nothing stays open between two chunks, one response is
\* collected per chunk, and an empty line opens nothing.
TransferOrder ==
    prog = "session" =>
        /\ log = SubSeq(ExpectedLog(Len(input_chunks)), 1, Len(log))
        /\ pc \in {"w_open", "r_open", "collect", "reassemble", "await"} =>
              handles = << >>
        /\ pc \in {"w_open", "w_loop", "w_fill"} =>
              (Len(output_chunks) = i /\ chunk = input_chunks[i + 1]
                 /\ Len(log) \in {5 * i, 5 * i + 1})
        /\ \A x \in 1..Len(output_chunks) : Len(output_chunks[x]) = READ_SIZE
        /\ pc = "reassemble" =>
              /\ Len(output_chunks) = Len(input_chunks)
              /\ log = ExpectedLog(Len(input_chunks))
        /\ (pc = "reassemble" /\ input_text = << >>) => log = << >>

\* Once the last chunk is collected, control is back at the input prompt
\* with the same port and baud rate.
BackToInput ==
    pc = "reassemble" =>
        (pc' = "await" /\ port' = port /\ baudrate' = baudrate)

\* C10: in every iteration of the session loop the chunks are transferred
\* in order and one at a time, each on connections of its own, one response
\* per chunk, none for an empty line, and after the last chunk the loop is
\* back at awaiting input with the same port and baud rate.
C10_SessionIteration == [](TransferOrder) /\ [][BackToInput]_vars

====
